---------------------------- MODULE Spec2Model ----------------------------
(***************************************************************************)
(* PING-Monitor: the PingManager / PingWorker / HostStats core of          *)
(* src/ping_manager.py and the consumer loop of src/app.py.                *)
(*                                                                         *)
(* Python objects are modelled by identity: a PingWorker, its              *)
(* threading.Event and its HostStats are all created together by one       *)
(* add_host call and are named by the same worker id 1..MaxWorkers.        *)
(* A reference to an object is its id, the value of an object is what the  *)
(* corresponding variable holds for that id.  None is the integer -1 (for  *)
(* numbers) and the id 0 (for object references).                          *)
(* Strings are sequences of one-character strings; time and latencies are  *)
(* naturals; intervals are counted in tenths of a second.                  *)
(***************************************************************************)
EXTENDS Integers, Sequences, FiniteSets, TLC

(* ------------------------------ bounds -------------------------------- *)
\* number of PingWorker objects ever constructed in one behaviour
MaxWorkers == 2
\* probe attempts per worker (caps the sent counter) in the specification of
\* the manager
MaxSent == 1
\* queue.Queue(maxsize=...): the program's 1000 scaled down
QueueCap == 2
\* deque(maxlen=HISTORY_MAX): the program's 3000 scaled down
HistoryCap == 2
\* the last value of the clock
MaxTime == 2
\* number of PingManager calls in one behaviour
MaxCalls == 3
\* probe attempts of the worker of the specification of one worker
MaxProbes == 3
\* probe attempts of the worker of the specification of the counters
MaxCount == 11

(* ------------------------- program constants -------------------------- *)
\* max(0.2, interval_seconds), in tenths of a second
MIN_INTERVAL == 2
\* worker.join(timeout=2), seconds
JOIN_TIMEOUT == 2
\* subprocess.run(..., timeout=4), seconds, per transport variant
PROBE_TIMEOUT == 4
\* the ping commands _ping_once tries in turn
PROBE_VARIANTS == 3

None == -1
NoRef == 0

WorkerIds == 1..MaxWorkers
Threads == {"t1", "t2"}
\* src/app.py makes every PingManager call on the Tk main thread
MainThread == {"t1"}

\* argument strings the callers pass as host
HostArgs == { <<>>, <<" ">>, <<"a">>, <<" ", "a">>, <<"b">> }
\* interval_seconds arguments, in tenths of a second
IntervalArgs == {1, 5}
\* latencies a probe can report (ms)
Latencies == {1, 2}

\* no floor: the second argument as it is
MaxTakesSecond(a, b) == b

Max(a, b) == IF a >= b THEN a ELSE b

(* ------------------------------ str.strip ----------------------------- *)
IsSpace(c) == c = " "

RECURSIVE lstrip(_)
lstrip(s) == IF s = <<>> THEN <<>>
             ELSE IF IsSpace(Head(s)) THEN lstrip(Tail(s)) ELSE s

RECURSIVE rstrip(_)
rstrip(s) == IF s = <<>> THEN <<>>
             ELSE IF IsSpace(s[Len(s)]) THEN rstrip(SubSeq(s, 1, Len(s) - 1)) ELSE s

strip(s) == rstrip(lstrip(s))

(* --------------------- dict (insertion ordered) ----------------------- *)
\* a dict is a sequence of <<key, value>> pairs in insertion order
DictKeys(d) == { d[i][1] : i \in 1..Len(d) }
DictKeyList(d) == [i \in 1..Len(d) |-> d[i][1]]
DictValues(d) == [i \in 1..Len(d) |-> d[i][2]]
DictHas(d, k) == k \in DictKeys(d)
\* a lookup that falls back to the first entry
DictGetFirst(d, k) == IF DictHas(d, k)
                      THEN d[CHOOSE i \in 1..Len(d) : d[i][1] = k][2]
                      ELSE IF d = <<>> THEN NoRef ELSE d[1][2]

DictGet(d, k) == IF DictHas(d, k)
                 THEN d[CHOOSE i \in 1..Len(d) : d[i][1] = k][2]
                 ELSE NoRef
DictSet(d, k, v) == IF DictHas(d, k)
                    THEN [i \in 1..Len(d) |-> IF d[i][1] = k THEN <<k, v>> ELSE d[i]]
                    ELSE Append(d, <<k, v>>)
\* dict.get in the place of dict.pop: the entry stays
DictPopKeeps(d, k) == d

\* dict.pop(k, None): the dict without the entry of k
DictPop(d, k) == SelectSeq(d, LAMBDA p : p[1] # k)

(* ------------------------------ HostStats ----------------------------- *)
\* HostStats(host=host): the dataclass defaults.  The history field holds a
\* reference to the deque the default_factory creates (deque w for worker w);
\* the deque's content is history[w].
HostStats(host, w) ==
    [host |-> host, sent |-> 0, received |-> 0,
     last_latency_ms |-> None, last_status |-> "Unknown", last_message |-> 0,
     last_seen_epoch |-> None, first_seen_epoch |-> None,
     latency_min_ms |-> None, latency_max_ms |-> None,
     latency_sum_ms |-> 0, latency_count |-> 0,
     history |-> w]

\* value of stats before the worker object exists
NoStats == HostStats(<<>>, NoRef)

\* a full deque that gives up its newest entry for the new one
DequeAppendEvictsNewest(h, e, cap) ==
    IF Len(h) < cap THEN Append(h, e)
    ELSE IF cap = 0 THEN <<>> ELSE Append(SubSeq(h, 1, Len(h) - 1), e)

\* deque(maxlen=cap).append(e): the oldest entry is dropped when full
DequeAppend(h, e, cap) ==
    IF Len(h) < cap THEN Append(h, e)
    ELSE IF cap = 0 THEN <<>> ELSE Append(Tail(h), e)

(* -------------------------------- float ------------------------------- *)
\* The float of Python is IEEE 754 binary64.  A float >= 0 is FZero or a
\* record [m, e]: m holds its MANT_BITS significant bits, the most
\* significant first (m[1] = 1), and e is the exponent of m[1], so that the
\* value is m[1].m[2]...m[53] * 2^e.  Every operation rounds the exact result
\* to the nearest float, ties to the even one.  Bit strings are sequences of
\* 0 and 1, most significant bit first.
MANT_BITS == 53

FZero == [m |-> <<>>, e |-> 0]

Zeros(n) == [i \in 1..n |-> 0]

\* bit strings are added and divided LIMB bits at a time, as numbers
LIMB == 15

\* the number a bit string of at most LIMB bits stands for
RECURSIVE BitsNat(_)
BitsNat(b) == IF b = <<>> THEN 0 ELSE 2 * BitsNat(SubSeq(b, 1, Len(b) - 1)) + b[Len(b)]

\* the number v < 2^n on n bits
FixedBits(v, n) == [i \in 1..n |-> (v \div 2^(n - i)) % 2]

\* the bits of the natural number v, without leading zeros
NatBits(v) ==
    FixedBits(v, CHOOSE n \in 0..30 : v < 2^n /\ (n = 0 \/ 2^(n - 1) <= v))

\* b without its leading zeros
StripZeros(b) ==
    IF \A i \in 1..Len(b) : b[i] = 0 THEN <<>>
    ELSE SubSeq(b, CHOOSE i \in 1..Len(b) : b[i] = 1 /\ \A j \in 1..(i - 1) : b[j] = 0, Len(b))

\* b without its trailing zeros
StripTrailingZeros(b) ==
    IF \A i \in 1..Len(b) : b[i] = 0 THEN <<>>
    ELSE SubSeq(b, 1, CHOOSE i \in 1..Len(b) : b[i] = 1 /\ \A j \in (i + 1)..Len(b) : b[j] = 0)

\* x + y + c for bit strings of one length; the result has one bit more
RECURSIVE BitsAddC(_, _, _)
BitsAddC(x, y, c) ==
    IF x = <<>> THEN <<c>>
    ELSE LET n == Len(x)
             k == IF n < LIMB THEN n ELSE LIMB
             s == BitsNat(SubSeq(x, n - k + 1, n)) + BitsNat(SubSeq(y, n - k + 1, n)) + c
         IN IF s >= 2^k
            THEN BitsAddC(SubSeq(x, 1, n - k), SubSeq(y, 1, n - k), 1) \o FixedBits(s - 2^k, k)
            ELSE BitsAddC(SubSeq(x, 1, n - k), SubSeq(y, 1, n - k), 0) \o FixedBits(s, k)

\* b + 1 on Len(b) bits (a string of ones wraps to zeros)
BitsInc(b) == Tail(BitsAddC(b, Zeros(Len(b)), 1))

\* x + y, without leading zeros
BitsSum(x, y) ==
    LET n == IF Len(x) >= Len(y) THEN Len(x) ELSE Len(y)
    IN StripZeros(BitsAddC(Zeros(n - Len(x)) \o x, Zeros(n - Len(y)) \o y, 0))

\* x * y, without leading zeros
RECURSIVE BitsMul(_, _)
BitsMul(x, y) ==
    IF y = <<>> THEN <<>>
    ELSE LET twice == StripZeros(Append(BitsMul(x, SubSeq(y, 1, Len(y) - 1)), 0))
         IN IF y[Len(y)] = 1 THEN BitsSum(twice, x) ELSE twice

\* the float nearest to the number whose bits are b (b[1] = 1), the exponent
\* of b[1] being e
RoundBits(b, e) ==
    IF Len(b) <= MANT_BITS
    THEN [m |-> b \o Zeros(MANT_BITS - Len(b)), e |-> e]
    ELSE LET keep == SubSeq(b, 1, MANT_BITS)
             half == b[MANT_BITS + 1] = 1
             more == \E i \in (MANT_BITS + 2)..Len(b) : b[i] = 1
             up == half /\ (more \/ keep[MANT_BITS] = 1)
         IN IF ~up THEN [m |-> keep, e |-> e]
            ELSE IF \A i \in 1..MANT_BITS : keep[i] = 1
                 THEN [m |-> <<1>> \o Zeros(MANT_BITS - 1), e |-> e + 1]
                 ELSE [m |-> BitsInc(keep), e |-> e]

\* float(n) for a natural number n
FromNat(n) == IF n = 0 THEN FZero ELSE RoundBits(NatBits(n), Len(NatBits(n)) - 1)

\* the next n bits of the quotient r / d (0 <= r < d), and a last bit that
\* tells whether a remainder is left
RECURSIVE DivBits(_, _, _)
DivBits(r, d, n) ==
    IF n = 0 THEN << IF r # 0 THEN 1 ELSE 0 >>
    ELSE LET k == IF n < LIMB THEN n ELSE LIMB
         IN FixedBits((r * 2^k) \div d, k) \o DivBits((r * 2^k) % d, d, n - k)

\* n / d * 2^e for n, d > 0: scaled until d <= n < 2 * d, then divided
RECURSIVE FDivScaled(_, _, _)
FDivScaled(n, d, e) ==
    IF n < d THEN FDivScaled(2 * n, d, e - 1)
    ELSE IF n >= 2 * d THEN FDivScaled(n, 2 * d, e + 1)
    ELSE RoundBits(<<1>> \o DivBits(n - d, d, MANT_BITS), e)

\* a / b for ints a >= 0 and b > 0 (the true division of Python)
FDiv(a, b) == IF a = 0 THEN FZero ELSE FDivScaled(a, b, 0)

\* exponent of the last bit of the bit string m whose first bit has exponent e
LastExp(m, e) == e - (Len(m) - 1)

\* x * y
FMul(x, y) ==
    IF x = FZero \/ y = FZero THEN FZero
    ELSE LET ym == StripTrailingZeros(y.m)
             p == BitsMul(x.m, ym)
             last == LastExp(x.m, x.e) + LastExp(ym, y.e)
         IN RoundBits(p, last + Len(p) - 1)

\* x + y
FAdd(x, y) ==
    IF x = FZero THEN y
    ELSE IF y = FZero THEN x
    ELSE LET lx == LastExp(x.m, x.e)
             ly == LastExp(y.m, y.e)
             last == IF lx <= ly THEN lx ELSE ly
             s == BitsSum(x.m \o Zeros(lx - last), y.m \o Zeros(ly - last))
         IN RoundBits(s, last + Len(s) - 1)

\* the float literal 100.0
F100 == FromNat(100)

\* HostStats.loss_percent, the percentage computed from the received count
\* in the place of the lost count
loss_percent_of_received(s) ==
    IF s.sent = 0 THEN FZero
    ELSE FMul(FDiv(s.received, s.sent), F100)

\* HostStats.loss_percent
loss_percent(s) ==
    IF s.sent = 0 THEN FZero
    ELSE LET lost == s.sent - s.received
         IN FMul(FDiv(lost, s.sent), F100)

\* HostStats.uptime_percent
uptime_percent(s) ==
    IF s.sent = 0 THEN FZero
    ELSE FMul(FDiv(s.received, s.sent), F100)

(* ------------------------------ _ping_once ---------------------------- *)
\* what one transport variant does: subprocess.run raises (an OSError or
\* TimeoutExpired), or it completes with a return code and an output that is
\* empty (""), blank (only whitespace) or text (its last line is a
\* diagnostic line); the regexes find a latency only in a text output
VariantOutcomes ==
    [raised : {TRUE}, rc : {0}, output : {"empty"}, latency : {None}]
    \cup [raised : {FALSE}, rc : {0, 1}, output : {"empty", "blank"}, latency : {None}]
    \cup [raised : {FALSE}, rc : {0, 1}, output : {"text"}, latency : Latencies \cup {None}]

\* last_output.strip().splitlines()[-1] if last_output else "": 0 is "", 1 is
\* a diagnostic line, and a blank output raises IndexError
LastLineRaises(output) == output = "blank"
LastLine(output) == IF output = "text" THEN 1 ELSE 0

PingReturn(success, latency, message) ==
    [raised |-> FALSE, success |-> success, latency |-> latency, message |-> message]
PingRaise == [raised |-> TRUE, success |-> FALSE, latency |-> None, message |-> 0]

\* the loop over the three commands; outs[i] is the outcome the i-th command
\* has when it is run.  An exception inside the try (also the IndexError of
\* the return expression) moves on to the next variant.
RECURSIVE PingFrom(_, _, _)
PingFrom(outs, i, last_output) ==
    IF i > Len(outs)
    THEN IF LastLineRaises(last_output) THEN PingRaise
         ELSE PingReturn(FALSE, None, LastLine(last_output))
    ELSE IF outs[i].raised THEN PingFrom(outs, i + 1, last_output)
    ELSE IF outs[i].rc = 0 /\ ~LastLineRaises(outs[i].output)
         THEN PingReturn(TRUE, outs[i].latency, LastLine(outs[i].output))
    ELSE PingFrom(outs, i + 1, outs[i].output)

ping_once(outs) == PingFrom(outs, 1, "empty")

\* everything _ping_once can do
PingResults == { ping_once(outs) : outs \in [1..3 -> VariantOutcomes] }

(* ------------------------------- state -------------------------------- *)
VARIABLES
    lock,              \* PingManager._lock: "free" or the thread holding it
    workers,           \* PingManager._workers: dict key -> worker ref
    stops,             \* PingManager._stops: dict key -> event ref
    update_queue,      \* PingManager._update_queue: sequence of HostStats refs
    created,           \* number of PingWorker objects constructed so far
    w_host,            \* PingWorker.host
    stop_event,        \* threading.Event flag of event w
    interval_seconds,  \* PingWorker.interval_seconds
    stats,             \* the fields of HostStats object w
    history,           \* the content of deque w
    wpc,               \* where worker thread w is in run()
    tpc,               \* where caller thread t is
    frame,             \* the arguments and locals of caller thread t
    ret,               \* what the last stats_snapshot / list_hosts of t returned
    now,               \* time.time()
    calls,             \* number of PingManager calls made so far
    joined,            \* history: for worker w, the call ("remove_host",
                       \* "stop_all") that popped it and has returned, else ""
    stopped,           \* history: a stop_all call has returned and no add_host
                       \* has registered a host since
    removed,           \* history: the host of the last remove_host call that has
                       \* returned, until an add_host registers it (else NoHost)
    dropped,           \* history: number of updates put_nowait has refused
                       \* (queue.Full)
    probed             \* history: what the ping commands of the worker's last
                       \* _ping_once call did, one outcome per command in the
                       \* order of the list (kept by the specification of the
                       \* probe only, else <<>>)

mgr_vars == <<lock, workers, stops, created>>
worker_vars == <<w_host, stop_event, interval_seconds, stats, history, wpc>>
thread_vars == <<tpc, frame, ret>>
ghost_vars == <<joined, stopped, removed, dropped, probed>>
vars == <<lock, workers, stops, update_queue, created, w_host, stop_event,
          interval_seconds, stats, history, wpc, tpc, frame, ret, now, calls,
          joined, stopped, removed, dropped, probed>>

\* requested is the interval_seconds argument as passed to update_interval;
\* waited is the time stop_all has spent in joins that ran into their timeout;
\* registered tells whether the host of a remove_host / update_interval call
\* was a key of _workers when the call held the lock
NoFrame == [arg |-> <<>>, host |-> <<>>, interval |-> 0, requested |-> 0,
            stop |-> NoRef, worker |-> NoRef,
            stops |-> <<>>, workers |-> <<>>, i |-> 0, waited |-> 0,
            registered |-> FALSE, fresh |-> FALSE]

\* no host (not a string of characters)
NoHost == <<"None">>

Init ==
    /\ lock = "free"
    /\ workers = <<>>
    /\ stops = <<>>
    /\ update_queue = <<>>
    /\ created = 0
    /\ w_host = [w \in WorkerIds |-> <<>>]
    /\ stop_event = [w \in WorkerIds |-> FALSE]
    /\ interval_seconds = [w \in WorkerIds |-> 0]
    /\ stats = [w \in WorkerIds |-> NoStats]
    /\ history = [w \in WorkerIds |-> <<>>]
    /\ wpc = [w \in WorkerIds |-> "none"]
    /\ tpc = [t \in Threads |-> "idle"]
    /\ frame = [t \in Threads |-> NoFrame]
    /\ ret = [t \in Threads |-> <<>>]
    /\ now = 0
    /\ calls = 0
    /\ joined = [w \in WorkerIds |-> ""]
    /\ stopped = FALSE
    /\ removed = NoHost
    /\ dropped = 0
    /\ probed = [w \in WorkerIds |-> <<>>]

(* --------------------------- PingWorker.run --------------------------- *)
\* a thread that has left run(): by the loop condition or by an exception
Dead(w) == wpc[w] \in {"done", "crashed"}

\* while True: the stop event is not looked at
WorkerCheckIgnoresStop(w, max_sent) ==
    /\ wpc[w] = "check"
    /\ stats[w].sent < max_sent
    /\ wpc' = [wpc EXCEPT ![w] = "inc"]
    /\ UNCHANGED <<calls, mgr_vars, update_queue, w_host, stop_event, interval_seconds,
                   stats, history, thread_vars, now, ghost_vars>>

\* while not self.stop_event.is_set()
WorkerCheck(w, max_sent) ==
    /\ wpc[w] = "check"
    /\ IF stop_event[w]
       THEN wpc' = [wpc EXCEPT ![w] = "done"]
       ELSE /\ stats[w].sent < max_sent
            /\ wpc' = [wpc EXCEPT ![w] = "inc"]
    /\ UNCHANGED <<calls, mgr_vars, update_queue, w_host, stop_event, interval_seconds,
                   stats, history, thread_vars, now, ghost_vars>>

\* the increment of sent left out
WorkerIncNoCount(w) ==
    /\ wpc[w] = "inc"
    /\ wpc' = [wpc EXCEPT ![w] = "probe"]
    /\ UNCHANGED <<calls, mgr_vars, update_queue, w_host, stop_event, interval_seconds,
                   stats, history, thread_vars, now, ghost_vars>>

\* self.stats.sent += 1, and the call of _ping_once
WorkerInc(w) ==
    /\ wpc[w] = "inc"
    /\ stats' = [stats EXCEPT ![w].sent = @ + 1]
    /\ wpc' = [wpc EXCEPT ![w] = "probe"]
    /\ UNCHANGED <<calls, mgr_vars, update_queue, w_host, stop_event, interval_seconds,
                   history, thread_vars, now, ghost_vars>>

\* a failure that resets the status
RecordFailureUnknown(s, r, t) ==
    IF r.success
    THEN [s EXCEPT !.received = @ + 1, !.last_status = "Up",
                   !.last_latency_ms = r.latency, !.last_seen_epoch = t,
                   !.first_seen_epoch = IF @ = None THEN t ELSE @,
                   !.last_message = r.message]
    ELSE [s EXCEPT !.last_status = "Unknown", !.last_latency_ms = None,
                   !.last_message = r.message]

\* every success writes first_seen_epoch
RecordOverwritesFirstSeen(s, r, t) ==
    IF r.success
    THEN [s EXCEPT !.received = @ + 1, !.last_status = "Up",
                   !.last_latency_ms = r.latency, !.last_seen_epoch = t,
                   !.first_seen_epoch = t,
                   !.last_message = r.message]
    ELSE [s EXCEPT !.last_status = "Down", !.last_latency_ms = None,
                   !.last_message = r.message]

\* a failed probe that counts as received
RecordCountsFailure(s, r, t) ==
    IF r.success
    THEN LET s1 == [s EXCEPT !.received = @ + 1,
                             !.last_status = "Up",
                             !.last_latency_ms = r.latency,
                             !.last_seen_epoch = t,
                             !.first_seen_epoch = IF @ = None THEN t ELSE @]
             s2 == IF r.latency # None
                   THEN [s1 EXCEPT
                           !.latency_sum_ms = @ + r.latency,
                           !.latency_count = @ + 1,
                           !.latency_min_ms =
                               IF @ = None \/ r.latency < @ THEN r.latency ELSE @,
                           !.latency_max_ms =
                               IF @ = None \/ r.latency > @ THEN r.latency ELSE @]
                   ELSE s1
         IN [s2 EXCEPT !.last_message = r.message]
    ELSE [s EXCEPT !.received = @ + 1,
                   !.last_status = "Down",
                   !.last_latency_ms = None,
                   !.last_message = r.message]

\* lines 70-86 and 96: the fields written after _ping_once has returned r at time t
Record(s, r, t) ==
    IF r.success
    THEN LET s1 == [s EXCEPT !.received = @ + 1,
                             !.last_status = "Up",
                             !.last_latency_ms = r.latency,
                             !.last_seen_epoch = t,
                             !.first_seen_epoch = IF @ = None THEN t ELSE @]
             s2 == IF r.latency # None
                   THEN [s1 EXCEPT
                           !.latency_sum_ms = @ + r.latency,
                           !.latency_count = @ + 1,
                           !.latency_min_ms =
                               IF @ = None \/ r.latency < @ THEN r.latency ELSE @,
                           !.latency_max_ms =
                               IF @ = None \/ r.latency > @ THEN r.latency ELSE @]
                   ELSE s1
         IN [s2 EXCEPT !.last_message = r.message]
    ELSE [s EXCEPT !.last_status = "Down",
                   !.last_latency_ms = None,
                   !.last_message = r.message]

\* line 90: the history entry of the iteration
HistoryEntry(r, t) == <<t, IF r.success THEN r.latency ELSE None>>

\* _ping_once returns r (or raises, which ends the thread) and the loop body
\* records it
WorkerProbe(w, R) ==
    /\ wpc[w] = "probe"
    /\ \E r \in R :
         IF r.raised
         THEN /\ wpc' = [wpc EXCEPT ![w] = "crashed"]
              /\ UNCHANGED <<stats, history>>
         ELSE /\ stats' = [stats EXCEPT ![w] = Record(@, r, now)]
              /\ history' = [history EXCEPT ![stats[w].history] =
                                DequeAppend(@, HistoryEntry(r, now), HistoryCap)]
              /\ wpc' = [wpc EXCEPT ![w] = "publish"]
    /\ UNCHANGED <<calls, mgr_vars, update_queue, w_host, stop_event, interval_seconds,
                   thread_vars, now, ghost_vars>>

\* the number of commands _ping_once runs: the loop of line 122 ends at the
\* first command whose iteration reaches the return of line 158 without an
\* exception
RECURSIVE RunFrom(_, _)
RunFrom(outs, i) ==
    IF i > Len(outs) THEN Len(outs)
    ELSE IF ~outs[i].raised /\ outs[i].rc = 0 /\ ~LastLineRaises(outs[i].output) THEN i
    ELSE RunFrom(outs, i + 1)

CommandsRun(outs) == RunFrom(outs, 1)

\* _ping_once runs its commands, which do what outs says, and the loop body
\* records what it returns
WorkerProbeOf(w, O) ==
    /\ wpc[w] = "probe"
    /\ \E outs \in O :
         LET r == ping_once(outs) IN
         /\ probed' = [probed EXCEPT ![w] = outs]
         /\ IF r.raised
            THEN /\ wpc' = [wpc EXCEPT ![w] = "crashed"]
                 /\ UNCHANGED <<stats, history>>
            ELSE /\ stats' = [stats EXCEPT ![w] = Record(@, r, now)]
                 /\ history' = [history EXCEPT ![stats[w].history] =
                                   DequeAppend(@, HistoryEntry(r, now), HistoryCap)]
                 /\ wpc' = [wpc EXCEPT ![w] = "publish"]
    /\ UNCHANGED <<calls, mgr_vars, update_queue, w_host, stop_event, interval_seconds,
                   thread_vars, now, joined, stopped, removed, dropped>>

\* queue.Queue.full()
Full(q) == Len(q) >= QueueCap

\* a queue without maxsize: every item is taken
put_nowait_unbounded(q, item) == Append(q, item)

\* queue.Queue.put_nowait(item): raises queue.Full when the queue is full
put_nowait(q, item) == IF Full(q) THEN q ELSE Append(q, item)

\* self.update_queue.put_nowait(self.stats), queue.Full ignored
WorkerPublish(w) ==
    /\ wpc[w] = "publish"
    /\ update_queue' = put_nowait(update_queue, w)
    /\ dropped' = IF Full(update_queue) THEN dropped + 1 ELSE dropped
    /\ wpc' = [wpc EXCEPT ![w] = "sleep"]
    /\ UNCHANGED <<calls, mgr_vars, w_host, stop_event, interval_seconds, stats, history,
                   thread_vars, now, joined, stopped, removed, probed>>

\* self.stop_event.wait(self.interval_seconds) returns: the event was set or
\* the interval has passed
WorkerSleep(w) ==
    /\ wpc[w] = "sleep"
    /\ wpc' = [wpc EXCEPT ![w] = "check"]
    /\ UNCHANGED <<calls, mgr_vars, update_queue, w_host, stop_event, interval_seconds,
                   stats, history, thread_vars, now, ghost_vars>>

\* time.sleep(self.interval_seconds): a set event does not end the sleep
WorkerWakeNever(w) == FALSE /\ WorkerSleep(w)

\* self.stop_event.wait(self.interval_seconds) returns at once, or as soon as
\* the event is set, without the interval having passed
WorkerWake(w) == stop_event[w] /\ WorkerSleep(w)

(* ----------------------------- PingManager ---------------------------- *)
\* thread t calls a method of the PingManager
Enter(t) ==
    /\ tpc[t] = "idle"
    /\ calls < MaxCalls
    /\ calls' = calls + 1

Return(t) ==
    /\ tpc' = [tpc EXCEPT ![t] = "idle"]
    /\ frame' = [frame EXCEPT ![t] = NoFrame]

\* the strip left out: the argument is the key
NormalizeHostIdentity(host) == host

\* line 178: host = host.strip()
NormalizeHost(host) == strip(host)

\* add_host, lines 178-180: the stripped host is empty and the call returns
AddHostEmpty(t, host_arg) ==
    /\ Enter(t)
    /\ NormalizeHost(host_arg) = <<>>
    /\ tpc' = [tpc EXCEPT ![t] = "add_ret"]
    /\ frame' = [frame EXCEPT ![t].arg = host_arg, ![t].host = NormalizeHost(host_arg)]
    /\ UNCHANGED <<mgr_vars, update_queue, worker_vars, ret, now, ghost_vars>>

AddHostReturn(t) ==
    /\ tpc[t] = "add_ret"
    /\ Return(t)
    /\ UNCHANGED <<calls, mgr_vars, update_queue, worker_vars, ret, now, ghost_vars>>

\* the membership test left out: every host is taken for a new one
AlreadyRegisteredNever(ws, host) == FALSE

\* line 182: if host in self._workers
AlreadyRegistered(ws, host) == DictHas(ws, host)

\* history: thread u is inside a remove_host(host) or a stop_all, past the pops
Overtaken(u, host) ==
    \/ tpc[u] \in {"rm_unlock", "rm_set", "rm_join"} /\ frame[u].host = host
    \/ tpc[u] \in {"sa_unlock", "sa_set", "sa_join"}

\* add_host, lines 178-188: the lock is taken and the body run under it
AddHostLock(t, host_arg, interval) ==
    LET host == NormalizeHost(host_arg)
        w == created + 1
        f == [frame[t] EXCEPT !.arg = host_arg, !.host = host, !.interval = interval]
    IN
    /\ Enter(t)
    /\ host # <<>>
    /\ lock = "free"
    /\ lock' = t
    /\ tpc' = [tpc EXCEPT ![t] = "add_unlock"]
    /\ IF AlreadyRegistered(workers, host)
       THEN /\ frame' = [frame EXCEPT ![t] = f]
            /\ UNCHANGED <<workers, stops, created, worker_vars, stopped, removed>>
       ELSE /\ created < MaxWorkers
            /\ created' = w
            \* PingWorker.__init__
            /\ w_host' = [w_host EXCEPT ![w] = host]
            /\ stop_event' = [stop_event EXCEPT ![w] = FALSE]
            /\ interval_seconds' = [interval_seconds EXCEPT ![w] = Max(MIN_INTERVAL, interval)]
            /\ stats' = [stats EXCEPT ![w] = HostStats(host, w)]
            /\ history' = [history EXCEPT ![w] = <<>>]
            /\ workers' = DictSet(workers, host, w)
            /\ stops' = DictSet(stops, host, w)
            \* worker.start()
            /\ wpc' = [wpc EXCEPT ![w] = "check"]
            \* history: the remove_host calls of host and the stop_all calls in
            \* progress are overtaken
            /\ frame' = [u \in Threads |->
                           IF u = t THEN f
                           ELSE IF Overtaken(u, host) THEN [frame[u] EXCEPT !.fresh = FALSE]
                           ELSE frame[u]]
            /\ removed' = IF removed = host THEN NoHost ELSE removed
            /\ stopped' = FALSE
    /\ UNCHANGED <<update_queue, ret, now, joined, dropped, probed>>

\* an add_host that returns without releasing the lock
AddHostKeepsLock(t) ==
    /\ tpc[t] = "add_unlock"
    /\ Return(t)
    /\ UNCHANGED <<calls, mgr_vars, update_queue, worker_vars, ret, now, ghost_vars>>

AddHostUnlock(t) ==
    /\ tpc[t] = "add_unlock"
    /\ lock' = "free"
    /\ Return(t)
    /\ UNCHANGED <<calls, workers, stops, created, update_queue, worker_vars, ret, now, ghost_vars>>

\* a remove_host that pops the host from _workers only
RemoveHostLockKeepsStop(t, host) ==
    /\ Enter(t)
    /\ lock = "free"
    /\ lock' = t
    /\ tpc' = [tpc EXCEPT ![t] = "rm_unlock"]
    /\ frame' = [frame EXCEPT ![t].host = host,
                              ![t].stop = DictGet(stops, host),
                              ![t].worker = DictGet(workers, host),
                              ![t].registered = DictHas(workers, host),
                              ![t].fresh = TRUE]
    /\ workers' = DictPop(workers, host)
    /\ UNCHANGED <<stops, created, update_queue, worker_vars, ret, now, ghost_vars>>

\* remove_host, lines 191-193
RemoveHostLock(t, host) ==
    /\ Enter(t)
    /\ lock = "free"
    /\ lock' = t
    /\ tpc' = [tpc EXCEPT ![t] = "rm_unlock"]
    /\ frame' = [frame EXCEPT ![t].host = host,
                              ![t].stop = DictGet(stops, host),
                              ![t].worker = DictGet(workers, host),
                              ![t].registered = DictHas(workers, host),
                              ![t].fresh = TRUE]
    /\ stops' = DictPop(stops, host)
    /\ workers' = DictPop(workers, host)
    /\ UNCHANGED <<created, update_queue, worker_vars, ret, now, ghost_vars>>

RemoveHostUnlock(t) ==
    /\ tpc[t] = "rm_unlock"
    /\ lock' = "free"
    /\ tpc' = [tpc EXCEPT ![t] = "rm_set"]
    /\ UNCHANGED <<calls, workers, stops, created, update_queue, worker_vars, frame, ret, now,
                   ghost_vars>>

\* a remove_host that joins without setting the stop event
RemoveHostNoSet(t) ==
    /\ tpc[t] = "rm_set"
    /\ tpc' = [tpc EXCEPT ![t] = "rm_join"]
    /\ UNCHANGED <<calls, mgr_vars, update_queue, worker_vars, frame, ret, now, ghost_vars>>

\* remove_host, lines 194-195
RemoveHostSet(t) ==
    /\ tpc[t] = "rm_set"
    /\ stop_event' = IF frame[t].stop # NoRef
                     THEN [stop_event EXCEPT ![frame[t].stop] = TRUE]
                     ELSE stop_event
    /\ tpc' = [tpc EXCEPT ![t] = "rm_join"]
    /\ UNCHANGED <<calls, mgr_vars, update_queue, w_host, interval_seconds, stats, history, wpc,
                   frame, ret, now, ghost_vars>>

\* Thread.join(timeout=JOIN_TIMEOUT) returns: the thread has ended, or the
\* timeout has passed, which takes a thread that stays where it is for longer
\* than JOIN_TIMEOUT: one inside a probe, whose every variant may take
\* PROBE_TIMEOUT
JoinReturns(w) ==
    \/ Dead(w)
    \/ wpc[w] = "probe" /\ JOIN_TIMEOUT < PROBE_TIMEOUT

\* remove_host, lines 196-197, and the return
RemoveHostJoin(t) ==
    /\ tpc[t] = "rm_join"
    /\ frame[t].worker # NoRef => JoinReturns(frame[t].worker)
    /\ joined' = IF frame[t].worker # NoRef
                 THEN [joined EXCEPT ![frame[t].worker] = "remove_host"] ELSE joined
    /\ removed' = IF frame[t].fresh THEN frame[t].host ELSE removed
    /\ Return(t)
    /\ UNCHANGED <<calls, mgr_vars, update_queue, worker_vars, ret, now, stopped, dropped,
                   probed>>

\* list_hosts
ListHostsLock(t) ==
    /\ Enter(t)
    /\ lock = "free"
    /\ lock' = t
    /\ tpc' = [tpc EXCEPT ![t] = "ls_unlock"]
    /\ ret' = [ret EXCEPT ![t] = DictKeyList(workers)]
    /\ UNCHANGED <<workers, stops, created, update_queue, worker_vars, frame, now, ghost_vars>>

ListHostsUnlock(t) ==
    /\ tpc[t] = "ls_unlock"
    /\ lock' = "free"
    /\ tpc' = [tpc EXCEPT ![t] = "ls_ret"]
    /\ UNCHANGED <<calls, workers, stops, created, update_queue, worker_vars, frame, ret, now,
                   ghost_vars>>

\* stats_snapshot, lines 205-231: every HostStats is copied field by field;
\* the history field of the copy is the reference the original holds
stats_snapshot(ws, st) == [i \in 1..Len(ws) |-> <<ws[i][1], st[ws[i][2]]>>]

SnapshotLock(t) ==
    /\ Enter(t)
    /\ lock = "free"
    /\ lock' = t
    /\ tpc' = [tpc EXCEPT ![t] = "snap_unlock"]
    /\ ret' = [ret EXCEPT ![t] = stats_snapshot(workers, stats)]
    /\ UNCHANGED <<workers, stops, created, update_queue, worker_vars, frame, now, ghost_vars>>

SnapshotUnlock(t) ==
    /\ tpc[t] = "snap_unlock"
    /\ lock' = "free"
    /\ tpc' = [tpc EXCEPT ![t] = "snap_ret"]
    /\ UNCHANGED <<calls, workers, stops, created, update_queue, worker_vars, frame, ret, now,
                   ghost_vars>>

\* the caller is done with what list_hosts / stats_snapshot returned
Discard(t) ==
    /\ tpc[t] \in {"ls_ret", "snap_ret"}
    /\ ret' = [ret EXCEPT ![t] = <<>>]
    /\ Return(t)
    /\ UNCHANGED <<calls, mgr_vars, update_queue, worker_vars, now, ghost_vars>>

\* update_interval, lines 234-236
UpdateIntervalLock(t, host, interval) ==
    /\ Enter(t)
    /\ lock = "free"
    /\ lock' = t
    /\ tpc' = [tpc EXCEPT ![t] = "ui_unlock"]
    /\ frame' = [frame EXCEPT ![t].requested = interval,
                              ![t].interval = Max(MIN_INTERVAL, interval),
                              ![t].worker = DictGet(workers, host),
                              ![t].registered = DictHas(workers, host)]
    /\ UNCHANGED <<workers, stops, created, update_queue, worker_vars, ret, now, ghost_vars>>

UpdateIntervalUnlock(t) ==
    /\ tpc[t] = "ui_unlock"
    /\ lock' = "free"
    /\ tpc' = [tpc EXCEPT ![t] = "ui_set"]
    /\ UNCHANGED <<calls, workers, stops, created, update_queue, worker_vars, frame, ret, now,
                   ghost_vars>>

\* update_interval, lines 237-238
UpdateIntervalSet(t) ==
    /\ tpc[t] = "ui_set"
    /\ interval_seconds' = IF frame[t].worker # NoRef
                           THEN [interval_seconds EXCEPT ![frame[t].worker] = frame[t].interval]
                           ELSE interval_seconds
    /\ Return(t)
    /\ UNCHANGED <<calls, mgr_vars, update_queue, w_host, stop_event, stats, history, wpc, ret, now,
                   ghost_vars>>

\* stop_all, lines 241-245
StopAllLock(t) ==
    /\ Enter(t)
    /\ lock = "free"
    /\ lock' = t
    /\ tpc' = [tpc EXCEPT ![t] = "sa_unlock"]
    /\ frame' = [frame EXCEPT ![t].stops = DictValues(stops),
                              ![t].workers = DictValues(workers),
                              ![t].fresh = TRUE]
    /\ stops' = <<>>
    /\ workers' = <<>>
    /\ UNCHANGED <<created, update_queue, worker_vars, ret, now, ghost_vars>>

StopAllUnlock(t) ==
    /\ tpc[t] = "sa_unlock"
    /\ lock' = "free"
    /\ tpc' = [tpc EXCEPT ![t] = "sa_set"]
    /\ UNCHANGED <<calls, workers, stops, created, update_queue, worker_vars, frame, ret, now,
                   ghost_vars>>

\* stop_all, lines 246-247: one turn of the loop, or its end
StopAllSet(t) ==
    /\ tpc[t] = "sa_set"
    /\ IF frame[t].i < Len(frame[t].stops)
       THEN /\ stop_event' = [stop_event EXCEPT ![frame[t].stops[frame[t].i + 1]] = TRUE]
            /\ frame' = [frame EXCEPT ![t].i = @ + 1]
            /\ UNCHANGED tpc
       ELSE /\ tpc' = [tpc EXCEPT ![t] = "sa_join"]
            /\ frame' = [frame EXCEPT ![t].i = 0]
            /\ UNCHANGED stop_event
    /\ UNCHANGED <<calls, mgr_vars, update_queue, w_host, interval_seconds, stats, history, wpc,
                   ret, now, ghost_vars>>

\* stop_all, lines 248-249: one turn of the loop, or its end and the return
StopAllJoin(t) ==
    /\ tpc[t] = "sa_join"
    /\ IF frame[t].i < Len(frame[t].workers)
       THEN LET w == frame[t].workers[frame[t].i + 1] IN
            /\ JoinReturns(w)
            \* a join that runs into its timeout takes JOIN_TIMEOUT, and the
            \* worker has been in its probe since the stop events were set
            /\ ~Dead(w) => frame[t].waited + JOIN_TIMEOUT <= PROBE_VARIANTS * PROBE_TIMEOUT
            /\ frame' = [frame EXCEPT ![t].i = @ + 1,
                                      ![t].waited = IF Dead(w) THEN @ ELSE @ + JOIN_TIMEOUT]
            /\ UNCHANGED <<tpc, joined, stopped>>
       ELSE /\ joined' = [w \in WorkerIds |->
                            IF \E k \in 1..Len(frame[t].workers) : frame[t].workers[k] = w
                            THEN "stop_all" ELSE joined[w]]
            /\ stopped' = (frame[t].fresh \/ stopped)
            /\ Return(t)
    /\ UNCHANGED <<calls, mgr_vars, update_queue, worker_vars, ret, now, removed, dropped,
                   probed>>

(* ------------------------------ consumer ------------------------------ *)
\* _drain_updates: one update_queue.get_nowait()
Drain ==
    /\ update_queue # <<>>
    /\ update_queue' = Tail(update_queue)
    /\ UNCHANGED <<calls, mgr_vars, worker_vars, thread_vars, now, ghost_vars>>

\* time passes
Tick ==
    /\ now < MaxTime
    /\ now' = now + 1
    /\ UNCHANGED <<calls, mgr_vars, update_queue, worker_vars, thread_vars, ghost_vars>>

(* ---------------------------- specification --------------------------- *)
\* the probe results of the specification of the manager: a failure and a
\* success (the specification of one worker has them all)
ProbeCases == { r \in PingResults : ~r.raised /\ r.message = 1
                                    /\ r.latency = IF r.success THEN 1 ELSE None }

WorkerStep(w) ==
    \/ WorkerCheck(w, MaxSent)
    \/ WorkerInc(w)
    \/ WorkerProbe(w, ProbeCases)
    \/ WorkerPublish(w)
    \/ WorkerSleep(w)

ThreadStep(t) ==
    \/ \E h \in HostArgs : AddHostEmpty(t, h)
    \/ AddHostReturn(t)
    \/ \E h \in HostArgs, s \in IntervalArgs : AddHostLock(t, h, s)
    \/ AddHostUnlock(t)
    \/ \E h \in HostArgs : RemoveHostLock(t, h)
    \/ RemoveHostUnlock(t)
    \/ RemoveHostSet(t)
    \/ RemoveHostJoin(t)
    \/ ListHostsLock(t)
    \/ ListHostsUnlock(t)
    \/ SnapshotLock(t)
    \/ SnapshotUnlock(t)
    \/ Discard(t)
    \/ \E h \in HostArgs, s \in IntervalArgs : UpdateIntervalLock(t, h, s)
    \/ UpdateIntervalUnlock(t)
    \/ UpdateIntervalSet(t)
    \/ StopAllLock(t)
    \/ StopAllUnlock(t)
    \/ StopAllSet(t)
    \/ StopAllJoin(t)

Next ==
    \/ \E w \in WorkerIds : WorkerStep(w)
    \/ \E t \in MainThread : ThreadStep(t)
    \/ Drain

Spec == Init /\ [][Next]_vars

\* The specification of one worker: the main thread adds the host "a" with
\* the default interval; the worker's probes have every result _ping_once
\* can give, time passes and the consumer drains the queue.
TheHost == <<"a">>
TheWorker == 1
\* DEFAULT_INTERVAL_SECONDS, in tenths of a second
DEFAULT_INTERVAL == 10

OneWorkerStep ==
    \/ WorkerCheck(TheWorker, MaxProbes)
    \/ WorkerInc(TheWorker)
    \/ WorkerProbe(TheWorker, PingResults)
    \/ WorkerPublish(TheWorker)
    \/ WorkerSleep(TheWorker)

OneThreadStep(t) ==
    \/ created = 0 /\ AddHostLock(t, TheHost, DEFAULT_INTERVAL)
    \/ AddHostUnlock(t)

NextWorker ==
    \/ OneWorkerStep
    \/ \E t \in MainThread : OneThreadStep(t)
    \/ Drain
    \/ Tick

SpecWorker == Init /\ [][NextWorker]_vars

\* The specification of the counters: one worker runs MaxCount iterations,
\* each probe failing or succeeding, and nobody drains the queue.
CountStep ==
    \/ WorkerCheck(TheWorker, MaxCount)
    \/ WorkerInc(TheWorker)
    \/ WorkerProbe(TheWorker, ProbeCases)
    \/ WorkerPublish(TheWorker)
    \/ WorkerSleep(TheWorker)

NextCount ==
    \/ CountStep
    \/ \E t \in MainThread : OneThreadStep(t)

SpecCount == Init /\ [][NextCount]_vars

\* The specification of the stop: the main thread adds the host "a" and then
\* calls remove_host("a") or stop_all(), at any point of the worker's loop;
\* the worker's probes have every result _ping_once can give.
StopThreadStep(t) ==
    \/ created = 0 /\ AddHostLock(t, TheHost, DEFAULT_INTERVAL)
    \/ AddHostUnlock(t)
    \/ RemoveHostLock(t, TheHost)
    \/ RemoveHostUnlock(t)
    \/ RemoveHostSet(t)
    \/ RemoveHostJoin(t)
    \/ StopAllLock(t)
    \/ StopAllUnlock(t)
    \/ StopAllSet(t)
    \/ StopAllJoin(t)

NextStop ==
    \/ OneWorkerStep
    \/ \E t \in MainThread : StopThreadStep(t)
    \/ Drain

\* what the worker thread does when it is scheduled and its calls return: the
\* loop check, the probe (every probe call returns or raises), the put, and
\* the return of the wait on a set event.  The wait on an event that is not
\* set is not in it: the interval may be as long as one likes.
WorkerRuns(w) ==
    \/ WorkerCheck(w, MaxProbes)
    \/ WorkerInc(w)
    \/ WorkerProbe(w, PingResults)
    \/ WorkerPublish(w)
    \/ WorkerWake(w)

SpecStop == Init /\ [][NextStop]_vars /\ WF_vars(WorkerRuns(TheWorker))

(* ------------------------------- claims ------------------------------ *)
\* worker w puts its HostStats on the update queue in this step
Publishes(w) ==
    /\ wpc[w] = "publish"
    /\ wpc'[w] = "sleep"
    /\ update_queue' = Append(update_queue, w)

\* thread t takes a snapshot in this step
SnapshotTaken(t) == tpc[t] = "idle" /\ tpc'[t] = "snap_unlock"

\* C1: once remove_host(target) has returned, the worker it removed puts no
\* further update on the update queue.
C1_NoPublishAfterRemoveHost ==
    [][\A w \in WorkerIds : joined[w] = "remove_host" => ~Publishes(w)]_vars

\* C2: once stop_all() has returned, no worker that was registered when it
\* was called puts a further update on the queue, and a snapshot taken after
\* it, with no add_host in between, is empty.
C2_NoPublishAfterStopAll ==
    [][/\ \A w \in WorkerIds : joined[w] = "stop_all" => ~Publishes(w)
       /\ \A t \in Threads : stopped /\ SnapshotTaken(t) => ret'[t] = <<>>]_vars

\* a HostStats value as it is between two complete iterations: the status is
\* Unknown exactly as long as no probe was counted
Whole(s) == (s.sent = 0) <=> (s.last_status = "Unknown")

\* C3: every HostStats copy of a snapshot is the state between two complete
\* iterations of its worker, never one where sent is counted and the result
\* of that probe is not yet recorded.
C3_SnapshotCopiesWhole ==
    \A t \in Threads :
        tpc[t] \in {"snap_unlock", "snap_ret"} =>
            \A i \in 1..Len(ret[t]) : Whole(ret[t][i][2])

\* C4: the field values of an item that stays on the update queue are not
\* changed by any step.
C4_QueueItemsAreCopies ==
    [][\A i \in 1..Len(update_queue) :
          (i <= Len(update_queue') /\ update_queue'[i] = update_queue[i])
              => stats'[update_queue[i]] = stats[update_queue[i]]]_vars

\* what the holder of a snapshot reads in it: the copied fields and the
\* content of the history deque the copy refers to
SnapshotView(r, h) ==
    [i \in 1..Len(r) |-> <<r[i][1], r[i][2], h[r[i][2].history]>>]

\* C5: nothing a returned snapshot holds, the history included, changes
\* after stats_snapshot has returned.
C5_SnapshotIsPointInTime ==
    [][\A t \in Threads :
          (tpc[t] = "snap_ret" /\ tpc'[t] = "snap_ret")
              => SnapshotView(ret[t], history') = SnapshotView(ret[t], history)]_vars

\* the hosts a list_hosts / stats_snapshot result names
ListedHosts(r) == { r[i] : i \in 1..Len(r) }

\* C6: after remove_host(host) has returned and until an add_host registers
\* the host again, the registry, list_hosts and stats_snapshot do not hold
\* it; the pops of remove_host leave every other registered host with its
\* worker.
C6_RemovedHostAbsent ==
    [][/\ removed' # NoHost => ~DictHas(workers', removed')
       /\ \A t \in Threads :
            /\ tpc'[t] = "ls_unlock" => removed' \notin ListedHosts(ret'[t])
            /\ tpc'[t] = "snap_unlock" => removed' \notin DictKeys(ret'[t])
            /\ (tpc[t] = "idle" /\ tpc'[t] = "rm_unlock") =>
                 /\ ~DictHas(workers', frame'[t].host)
                 /\ \A k \in DictKeys(workers) \ {frame'[t].host} :
                      /\ DictGet(workers', k) = DictGet(workers, k)
                      /\ DictGet(stops', k) = DictGet(stops, k)]_vars

\* C6 witness: remove_host("a") has returned and "b" is still registered
C6_Witness ==
    /\ removed = <<"a">>
    /\ DictKeys(workers) = {<<"b">>}
    /\ \A t \in Threads : tpc[t] = "idle"

\* C7: an add_host of a host that is registered creates no worker, keeps the
\* registered worker and its stop event, and changes no worker's counters,
\* interval, stop flag or position.
C7_AddHostIdempotent ==
    [][\A t \in Threads :
          (tpc[t] = "idle" /\ tpc'[t] = "add_unlock" /\ DictHas(workers, frame'[t].host))
              => /\ workers' = workers
                 /\ stops' = stops
                 /\ created' = created
                 /\ stop_event' = stop_event
                 /\ interval_seconds' = interval_seconds
                 /\ stats' = stats
                 /\ history' = history
                 /\ wpc' = wpc]_vars

\* C7 witness: the second add_host of a registered host, with another
\* interval, after its worker has counted a probe
C7_Witness ==
    \E t \in Threads :
        /\ tpc[t] = "add_unlock"
        /\ created = 1
        /\ DictGet(workers, frame[t].host) = 1
        /\ stats[1].sent = 1
        /\ interval_seconds[1] # Max(MIN_INTERVAL, frame[t].interval)

\* C8 as claimed: the key add_host registers is exactly the string passed in.
C8_KeyIsArgument ==
    \A t \in Threads : tpc[t] = "add_unlock" => DictHas(workers, frame[t].arg)

\* C8 as amended: the key add_host registers is the argument with its leading
\* and trailing whitespace stripped, the registered worker and its HostStats
\* carry that key as host, and no key is registered twice.
C8_KeyIsStrippedArgument ==
    /\ \A t \in Threads :
         tpc[t] = "add_unlock" =>
            /\ DictHas(workers, strip(frame[t].arg))
            /\ frame[t].arg # strip(frame[t].arg) => ~DictHas(workers, frame[t].arg)
    /\ \A i \in 1..Len(workers) :
         /\ w_host[workers[i][2]] = workers[i][1]
         /\ stats[workers[i][2]].host = workers[i][1]
         /\ \A j \in 1..Len(workers) : workers[j][1] = workers[i][1] => j = i

\* C8 witness: add_host(" a") has registered the key "a"
C8_Witness ==
    \E t \in Threads :
        /\ tpc[t] = "add_unlock"
        /\ frame[t].arg = <<" ", "a">>
        /\ DictKeys(workers) = {<<"a">>}

\* C9: in every state of every worker's HostStats, 0 <= received <= sent.
C9_ReceivedAtMostSent ==
    \A w \in WorkerIds : 0 <= stats[w].received /\ stats[w].received <= stats[w].sent

\* C9 witness: a worker with successes and a failure counted
C9_Witness ==
    \E w \in WorkerIds : stats[w].received = 2 /\ stats[w].sent = 3

\* C10: last_latency_ms is present if and only if last_status is Up.
C10_LatencyIffUp ==
    \A w \in WorkerIds :
        (stats[w].last_latency_ms # None) <=> (stats[w].last_status = "Up")

\* worker w is between two iterations of its loop, or past the last one
Completed(w) == wpc[w] \in {"publish", "sleep", "check", "done"}

\* C11: after every completed iteration latency_min_ms <= latency_max_ms when
\* both are set, and when last_status is Up and the extrema are set,
\* last_latency_ms is a value between them.
C11_LatencyWithinExtrema ==
    \A w \in WorkerIds :
        LET s == stats[w]
            set == s.latency_min_ms # None /\ s.latency_max_ms # None
        IN Completed(w) =>
            /\ set => s.latency_min_ms <= s.latency_max_ms
            /\ (s.last_status = "Up" /\ set) =>
                 /\ s.last_latency_ms # None
                 /\ s.latency_min_ms <= s.last_latency_ms
                 /\ s.last_latency_ms <= s.latency_max_ms

\* worker w records the result of a probe in this step
Records(w) == wpc[w] = "probe" /\ wpc'[w] = "publish"

C13_UnknownUntilFirstResult ==
    [][\A w \in WorkerIds :
          /\ (wpc[w] = "none" /\ wpc'[w] # "none") => stats'[w].last_status = "Unknown"
          /\ Records(w) => stats'[w].last_status \in {"Up", "Down"}
          /\ (wpc[w] # "none" /\ ~Records(w)) => stats'[w].last_status = stats[w].last_status
          /\ stats[w].last_status # "Unknown" => stats'[w].last_status # "Unknown"
          /\ (stats'[w].last_status = "Unknown") <=> (history'[w] = <<>>)]_vars

\* C13 witness: a worker that was Up and is Down after a later probe
C13_Witness ==
    /\ stats[TheWorker].received = 1
    /\ stats[TheWorker].sent = 2
    /\ stats[TheWorker].last_status = "Down"

\* worker w records a successful probe in this step
RecordsSuccess(w) == Records(w) /\ stats'[w].received = stats[w].received + 1

\* C14: first_seen_epoch and last_seen_epoch are written only when a
\* successful probe is recorded; last_seen_epoch is then the time of that
\* probe; first_seen_epoch is the time of the first successful probe and is
\* never written again; first_seen_epoch is set whenever last_seen_epoch is.
C14_SeenEpochs ==
    [][\A w \in WorkerIds :
          LET s == stats[w]
              u == stats'[w]
          IN /\ wpc[w] # "none" =>
                  /\ (u.first_seen_epoch # s.first_seen_epoch
                        \/ u.last_seen_epoch # s.last_seen_epoch) => RecordsSuccess(w)
                  /\ s.first_seen_epoch # None => u.first_seen_epoch = s.first_seen_epoch
                  /\ RecordsSuccess(w) =>
                        /\ u.last_seen_epoch = now
                        /\ s.received = 0 => u.first_seen_epoch = now
             /\ (u.received = 0) <=> (u.first_seen_epoch = None)
             /\ u.last_seen_epoch # None =>
                  /\ u.first_seen_epoch # None
                  /\ u.first_seen_epoch <= u.last_seen_epoch]_vars

\* C14 witness: two successful probes at different times
C14_Witness ==
    /\ stats[TheWorker].received = 2
    /\ stats[TheWorker].first_seen_epoch # None
    /\ stats[TheWorker].first_seen_epoch < stats[TheWorker].last_seen_epoch

\* C15: a worker whose probes all fail is never ended by the failures: as
\* long as no probe of it has succeeded, its thread has not left run() by an
\* exception, and after its first iteration last_status is Down.
C15_FailuresNeverEndWorker ==
    \A w \in WorkerIds :
        stats[w].received = 0 =>
            /\ wpc[w] # "crashed"
            /\ (stats[w].sent >= 1 /\ Completed(w)) => stats[w].last_status = "Down"

\* the requested interval raised to the floor of 0.2 s
Floored(requested) == IF requested < MIN_INTERVAL THEN MIN_INTERVAL ELSE requested

\* thread t constructs worker w in this step of add_host
Constructs(t, w) ==
    tpc[t] = "idle" /\ tpc'[t] = "add_unlock" /\ created = w - 1 /\ created' = w

\* thread t assigns the interval of worker w in this step of update_interval
AssignsInterval(t, w) ==
    tpc[t] = "ui_set" /\ tpc'[t] = "idle" /\ frame[t].worker = w

\* C16: the interval of every worker is never below the floor: add_host
\* constructs the worker with max(0.2, requested), update_interval assigns
\* max(0.2, requested), and nothing else writes the interval.
C16_IntervalAtLeastFloor ==
    [][\A w \in WorkerIds :
          /\ wpc'[w] # "none" => interval_seconds'[w] >= MIN_INTERVAL
          /\ \A t \in Threads :
               /\ Constructs(t, w) => interval_seconds'[w] = Floored(frame'[t].interval)
               /\ AssignsInterval(t, w) => interval_seconds'[w] = Floored(frame[t].requested)
          /\ interval_seconds'[w] # interval_seconds[w] =>
               \E t \in Threads : Constructs(t, w) \/ AssignsInterval(t, w)]_vars

\* C16 witness: add_host with an interval below the floor has constructed a
\* worker, whose interval is the floor
C16_Witness ==
    \E t \in Threads :
        /\ tpc[t] = "add_unlock"
        /\ frame[t].interval < MIN_INTERVAL
        /\ created = 1
        /\ wpc[1] = "check"
        /\ stats[1].sent = 0
        /\ interval_seconds[1] = MIN_INTERVAL

\* worker w runs its put_nowait in this step
PublishStep(w) == wpc[w] = "publish" /\ wpc'[w] # "publish"

\* C17: the put of an iteration is always possible and ends in the sleep; on
\* a full queue the update is dropped and the queue stays as it is, else the
\* update is appended; the HostStats written by the iteration is kept; the
\* queue never holds more than its capacity.
C17_PublishNeverBlocksOrOverfills ==
    /\ [](Len(update_queue) <= QueueCap)
    /\ [](\A w \in WorkerIds : wpc[w] = "publish" => ENABLED WorkerPublish(w))
    /\ [][\A w \in WorkerIds :
             PublishStep(w) =>
                /\ wpc'[w] = "sleep"
                /\ stats'[w] = stats[w]
                /\ history' = history
                /\ IF Len(update_queue) = QueueCap
                   THEN update_queue' = update_queue
                   ELSE update_queue' = Append(update_queue, w)]_vars

\* C17 witness: an update was dropped on a full queue and the worker is in
\* its next cycle, with the counters of the dropped iteration kept
C17_Witness ==
    /\ dropped = 1
    /\ Len(update_queue) = QueueCap
    /\ wpc[TheWorker] = "check"
    /\ stats[TheWorker].sent = QueueCap + 1

\* thread t takes a step of a remove_host or update_interval call whose host
\* was not registered
AbsentCallStep(t) ==
    \/ /\ tpc[t] = "idle"
       /\ tpc'[t] \in {"rm_unlock", "ui_unlock"}
       /\ ~frame'[t].registered
    \/ /\ tpc[t] \in {"rm_unlock", "rm_set", "rm_join", "ui_unlock", "ui_set"}
       /\ tpc'[t] # tpc[t]
       /\ ~frame[t].registered

\* C18: remove_host and update_interval of a host that is not registered run
\* to their return (nothing raises or waits) and no step of them changes the
\* registry, a stop event, an interval, a HostStats, a history, the position
\* of a worker or the update queue.
C18_AbsentTargetNoOp ==
    /\ [](\A t \in Threads :
            ~frame[t].registered =>
               /\ tpc[t] = "rm_set" => ENABLED RemoveHostSet(t)
               /\ tpc[t] = "rm_join" => ENABLED RemoveHostJoin(t)
               /\ tpc[t] = "ui_set" => ENABLED UpdateIntervalSet(t))
    /\ [][\A t \in Threads :
             AbsentCallStep(t) =>
                /\ workers' = workers
                /\ stops' = stops
                /\ stop_event' = stop_event
                /\ interval_seconds' = interval_seconds
                /\ stats' = stats
                /\ history' = history
                /\ wpc' = wpc
                /\ update_queue' = update_queue]_vars

\* C18 witness: remove_host("b") has returned, "b" was never registered, and
\* "a" is registered with its worker
C18_Witness ==
    /\ removed = <<"b">>
    /\ created = 1
    /\ DictKeys(workers) = {<<"a">>}
    /\ DictGet(workers, <<"a">>) = 1
    /\ ~stop_event[1]
    /\ \A t \in Threads : tpc[t] = "idle"

\* the float after x (x > 0)
FSucc(x) ==
    IF \A i \in 1..MANT_BITS : x.m[i] = 1
    THEN [m |-> <<1>> \o Zeros(MANT_BITS - 1), e |-> x.e + 1]
    ELSE [m |-> BitsInc(x.m), e |-> x.e]

\* loss_percent() + uptime_percent()
PercentSum(s) == FAdd(loss_percent(s), uptime_percent(s))

\* C19 as claimed: with sent > 0, loss_percent() + uptime_percent() is 100.
C19_PercentagesSumTo100 ==
    \A w \in WorkerIds : stats[w].sent > 0 => PercentSum(stats[w]) = F100

\* C19 as amended: with sent = 0 both percentages are 0; with sent > 0 they
\* are the floats (sent - received) / sent * 100 and received / sent * 100,
\* their float sum is 100, the float before 100 or the float after 100, and
\* it is 100 when received is 0 or sent.
C19_PercentagesSumNear100 ==
    \A w \in WorkerIds :
        LET s == stats[w]
            sum == PercentSum(s)
        IN IF s.sent = 0
           THEN loss_percent(s) = FZero /\ uptime_percent(s) = FZero
           ELSE /\ loss_percent(s) = FMul(FDiv(s.sent - s.received, s.sent), F100)
                /\ uptime_percent(s) = FMul(FDiv(s.received, s.sent), F100)
                /\ sum = F100 \/ FSucc(sum) = F100 \/ sum = FSucc(F100)
                /\ s.received \in {0, s.sent} => sum = F100

\* C19 witness: 9 of 11 probes lost, and the sum of the two percentages is
\* the float after 100
C19_Witness ==
    /\ stats[TheWorker].sent = 11
    /\ stats[TheWorker].received = 2
    /\ PercentSum(stats[TheWorker]) = FSucc(F100)

\* C20: the time stop_all spends waiting in its joins is at most one join
\* timeout, however many workers do not end in time.
C20_StopAllWaitsOneTimeout ==
    \A t \in Threads : tpc[t] = "sa_join" => frame[t].waited <= JOIN_TIMEOUT

\* The specification of the probe: one worker for the host "a", whose
\* _ping_once calls run commands with every combination of outcomes.
CommandOutcomes == [1..PROBE_VARIANTS -> VariantOutcomes]

ProbeWorkerStep ==
    \/ WorkerCheck(TheWorker, MaxSent)
    \/ WorkerInc(TheWorker)
    \/ WorkerProbeOf(TheWorker, CommandOutcomes)
    \/ WorkerPublish(TheWorker)
    \/ WorkerSleep(TheWorker)

NextProbe ==
    \/ ProbeWorkerStep
    \/ \E t \in MainThread : OneThreadStep(t)
    \/ Drain

SpecProbe == Init /\ [][NextProbe]_vars

\* The specification of concurrent callers: two threads call add_host,
\* remove_host and stop_all in any interleaving the lock allows, from the
\* empty registry, for the hosts "a" and "b".
ConcHosts == {<<"a">>, <<"b">>}

ConcThreadStep(t) ==
    \/ \E h \in ConcHosts : AddHostLock(t, h, DEFAULT_INTERVAL)
    \/ AddHostUnlock(t)
    \/ \E h \in ConcHosts : RemoveHostLock(t, h)
    \/ RemoveHostUnlock(t)
    \/ RemoveHostSet(t)
    \/ RemoveHostJoin(t)
    \/ StopAllLock(t)
    \/ StopAllUnlock(t)
    \/ StopAllSet(t)
    \/ StopAllJoin(t)

NextConc ==
    \/ \E w \in WorkerIds : WorkerStep(w)
    \/ \E t \in Threads : ConcThreadStep(t)
    \/ Drain

SpecConc == Init /\ [][NextConc]_vars

\* The specification of update_interval among concurrent callers.  It starts
\* in the state add_host("a") leaves behind when it has returned: worker 1 is
\* registered for "a" with the default interval and has been started.  From
\* there two threads call update_interval, remove_host and add_host for "a".
InitRegistered ==
    /\ lock = "free"
    /\ workers = DictSet(<<>>, TheHost, TheWorker)
    /\ stops = DictSet(<<>>, TheHost, TheWorker)
    /\ update_queue = <<>>
    /\ created = TheWorker
    /\ w_host = [w \in WorkerIds |-> IF w = TheWorker THEN TheHost ELSE <<>>]
    /\ stop_event = [w \in WorkerIds |-> FALSE]
    /\ interval_seconds = [w \in WorkerIds |->
                             IF w = TheWorker THEN Max(MIN_INTERVAL, DEFAULT_INTERVAL) ELSE 0]
    /\ stats = [w \in WorkerIds |->
                  IF w = TheWorker THEN HostStats(TheHost, TheWorker) ELSE NoStats]
    /\ history = [w \in WorkerIds |-> <<>>]
    /\ wpc = [w \in WorkerIds |-> IF w = TheWorker THEN "check" ELSE "none"]
    /\ tpc = [t \in Threads |-> "idle"]
    /\ frame = [t \in Threads |-> NoFrame]
    /\ ret = [t \in Threads |-> <<>>]
    /\ now = 0
    /\ calls = 0
    /\ joined = [w \in WorkerIds |-> ""]
    /\ stopped = FALSE
    /\ removed = NoHost
    /\ dropped = 0
    /\ probed = [w \in WorkerIds |-> <<>>]

RaceThreadStep(t) ==
    \/ \E s \in IntervalArgs : UpdateIntervalLock(t, TheHost, s)
    \/ UpdateIntervalUnlock(t)
    \/ UpdateIntervalSet(t)
    \/ AddHostLock(t, TheHost, DEFAULT_INTERVAL)
    \/ AddHostUnlock(t)
    \/ RemoveHostLock(t, TheHost)
    \/ RemoveHostUnlock(t)
    \/ RemoveHostSet(t)
    \/ RemoveHostJoin(t)

NextRace ==
    \/ \E w \in WorkerIds : WorkerStep(w)
    \/ \E t \in Threads : RaceThreadStep(t)
    \/ Drain

SpecRace == InitRegistered /\ [][NextRace]_vars

\* The specification of the lock: two threads call every method of the
\* manager for the host "a".  A thread that is inside a method does the steps
\* that lead to its return whenever it is scheduled: the bodies under the lock
\* and the statements after them are straight-line code.  Nothing is assumed
\* about the workers (a probe may never return) nor about the joins.
LockThreadStep(t) ==
    \/ AddHostLock(t, TheHost, DEFAULT_INTERVAL)
    \/ AddHostUnlock(t)
    \/ RemoveHostLock(t, TheHost)
    \/ RemoveHostUnlock(t)
    \/ RemoveHostSet(t)
    \/ RemoveHostJoin(t)
    \/ ListHostsLock(t)
    \/ ListHostsUnlock(t)
    \/ SnapshotLock(t)
    \/ SnapshotUnlock(t)
    \/ Discard(t)
    \/ \E s \in IntervalArgs : UpdateIntervalLock(t, TheHost, s)
    \/ UpdateIntervalUnlock(t)
    \/ UpdateIntervalSet(t)
    \/ StopAllLock(t)
    \/ StopAllUnlock(t)
    \/ StopAllSet(t)
    \/ StopAllJoin(t)

NextLock ==
    \/ \E w \in WorkerIds : WorkerStep(w)
    \/ \E t \in Threads : LockThreadStep(t)
    \/ Drain

\* the steps of thread t that neither wait for the lock, nor for a worker
ThreadRuns(t) ==
    \/ AddHostUnlock(t)
    \/ RemoveHostUnlock(t)
    \/ RemoveHostSet(t)
    \/ ListHostsUnlock(t)
    \/ SnapshotUnlock(t)
    \/ Discard(t)
    \/ UpdateIntervalUnlock(t)
    \/ UpdateIntervalSet(t)
    \/ StopAllUnlock(t)
    \/ StopAllSet(t)

SpecLock == Init /\ [][NextLock]_vars /\ \A t \in Threads : WF_vars(ThreadRuns(t))

(* ------------------------------ C21 .. C30 ---------------------------- *)

\* the worker starts a probe: sent is incremented and _ping_once is called
StartsProbe(w) == wpc[w] = "inc" /\ wpc'[w] = "probe"

\* C21 (as stated): once the stop signal of a worker is set, the worker
\* starts no new probe.
C21_NoProbeAfterStop ==
    [][\A w \in WorkerIds : stop_event[w] => ~StartsProbe(w)]_vars

\* C21 (safety): a worker is Running or Stopped and Stopped is terminal: a
\* worker whose thread has ended changes no counter, no history and publishes
\* nothing, and its stop signal is never cleared; the loop check that finds
\* the signal set ends the loop, and an iteration begins only at a loop check
\* that found the signal not set, so a signal set after the check lets at most
\* the iteration already begun run.
C21_StoppedIsTerminal ==
    [][\A w \in WorkerIds :
          /\ Dead(w) => /\ wpc'[w] = wpc[w]
                        /\ stats'[w] = stats[w]
                        /\ history'[w] = history[w]
                        /\ ~Publishes(w)
          /\ stop_event[w] => stop_event'[w]
          /\ (wpc[w] = "check" /\ stop_event[w] /\ wpc'[w] # wpc[w])
                => wpc'[w] = "done"
          /\ (wpc'[w] = "inc" /\ wpc[w] # "inc")
                => (wpc[w] = "check" /\ ~stop_event[w])
          /\ (stop_event[w] /\ wpc[w] \in {"publish", "sleep", "check"})
                => wpc'[w] \in {"publish", "sleep", "check", "done"}]_vars

\* C21 (liveness): a worker whose stop signal is set eventually stops, every
\* probe call returning.
C21_StopsEventually ==
    \A w \in {TheWorker} : stop_event[w] ~> Dead(w)

\* C21 (amended): Running and Stopped are the only states, Stopped is terminal,
\* a signal set after the loop check lets at most the iteration already begun
\* run, and a signalled worker eventually stops.
C21_RunningThenStopped == C21_StoppedIsTerminal /\ C21_StopsEventually

\* C21 witness: the signal was set, the worker has probed and has stopped at
\* its loop check.
C21_Witness ==
    /\ stop_event[TheWorker]
    /\ wpc[TheWorker] = "done"
    /\ stats[TheWorker].sent >= 1

\* C22 (safety): a worker that is in its wait, or back at the loop check,
\* with its stop signal set only leaves the wait and ends the loop: sent and
\* all other statistics stay as they are and no probe is started.
C22_WakeStartsNothing ==
    [][\A w \in WorkerIds :
          (stop_event[w] /\ wpc[w] \in {"sleep", "check"})
            => /\ stats'[w] = stats[w]
               /\ history'[w] = history[w]
               /\ wpc[w] = "sleep" => wpc'[w] \in {"sleep", "check"}
               /\ wpc[w] = "check" => wpc'[w] \in {"check", "done"}]_vars

\* C22 (liveness): a worker whose stop signal is set while it waits reaches
\* Stopped although no interval ever runs out.
C22_SleepIsInterruptible ==
    \A w \in {TheWorker} :
        (stop_event[w] /\ wpc[w] = "sleep") ~> (wpc[w] = "done")

\* C22: a stop signal set during the wait wakes the worker, which ends its
\* loop without waiting out the interval, starting a probe or counting one.
C22_InterruptibleSleep == C22_WakeStartsNothing /\ C22_SleepIsInterruptible

\* C22 witness: the signal is set while the worker is in its wait.
C22_Witness ==
    /\ stop_event[TheWorker]
    /\ wpc[TheWorker] = "sleep"
    /\ stats[TheWorker].sent >= 1

\* C23: a probe in flight when the stop signal is set is not cancelled: the
\* worker's next step records its result (and the step after publishes it).
C23_ProbeInFlightIsRecorded ==
    [][\A w \in WorkerIds :
          (stop_event[w] /\ wpc[w] = "probe" /\ wpc'[w] # wpc[w])
            => Records(w)]_vars

\* C23 (the part that holds): a result recorded with the signal set is put on
\* the queue, or dropped by a full queue, before the worker ends.
C23_RecordedIsPublished ==
    [][\A w \in WorkerIds :
          (stop_event[w] /\ wpc[w] = "publish" /\ wpc'[w] # wpc[w])
            => (wpc'[w] = "sleep" /\ (Publishes(w) \/ Full(update_queue)))]_vars

\* the four latency aggregates of a HostStats
Aggregates(s) ==
    <<s.latency_sum_ms, s.latency_count, s.latency_min_ms, s.latency_max_ms>>

\* C24: an iteration increments sent by exactly 1, when it starts its probe,
\* and nothing else changes sent; recording a successful probe (status Up)
\* increments received by exactly 1, recording a failed one (status Down)
\* leaves it, and nothing else changes received; the latency aggregates change
\* only when a successful probe that reported a latency is recorded, and then
\* by that latency.
C24_CountersPerIteration ==
    [][\A w \in WorkerIds :
          LET s == stats[w]
              u == stats'[w]
              lat == u.last_latency_ms
          IN wpc[w] # "none" =>
               /\ u.sent = s.sent + (IF StartsProbe(w) THEN 1 ELSE 0)
               /\ (wpc[w] = "check" /\ wpc'[w] # wpc[w]) => wpc'[w] \in {"inc", "done"}
               /\ (wpc'[w] = "check" /\ wpc[w] # "check") => wpc[w] = "sleep"
               /\ u.received = s.received
                     + (IF Records(w) /\ u.last_status = "Up" THEN 1 ELSE 0)
               /\ Records(w) => u.last_status \in {"Up", "Down"}
               /\ u.received <= u.sent
               /\ Aggregates(u) # Aggregates(s)
                     => (Records(w) /\ u.last_status = "Up" /\ lat # None)
               /\ (Records(w) /\ u.last_status = "Up" /\ lat # None)
                     => /\ u.latency_sum_ms = s.latency_sum_ms + lat
                        /\ u.latency_count = s.latency_count + 1
                        /\ u.latency_min_ms =
                             (IF s.latency_min_ms = None \/ lat < s.latency_min_ms
                              THEN lat ELSE s.latency_min_ms)
                        /\ u.latency_max_ms =
                             (IF s.latency_max_ms = None \/ lat > s.latency_max_ms
                              THEN lat ELSE s.latency_max_ms)]_vars

\* C24 witness: three iterations, a success with a latency, a success without
\* one and a failure: received is 2 of 3 sent and one latency is aggregated.
C24_Witness ==
    /\ stats[TheWorker].sent = 3
    /\ stats[TheWorker].received = 2
    /\ stats[TheWorker].latency_count = 1
    /\ stats[TheWorker].last_status = "Down"

\* the latency of the newest entry of a history
NewestLatency(h) == h[Len(h)][2]

\* C25: the iteration's history entry has an absent latency exactly when the
\* probe failed.
C25_AbsentLatencyIffFailed ==
    [][\A w \in WorkerIds :
          Records(w) =>
            ((NewestLatency(history'[stats[w].history]) = None)
               <=> (stats'[w].last_status = "Down"))]_vars

\* C25 (the part that holds): every recorded iteration appends exactly one
\* entry, stamped with the current time, and history changes in no other
\* step; the entry of a failed probe has an absent latency.
C25_OneEntryPerIteration ==
    [][\A w \in WorkerIds :
          LET h == history[w]
              g == history'[w]
          IN /\ (wpc[w] # "none" /\ g # h) => Records(w)
             /\ Records(w) =>
                  /\ Len(g) >= 1
                  /\ g[Len(g)][1] = now
                  /\ g = DequeAppend(h, g[Len(g)], HistoryCap)
                  /\ stats'[w].last_status = "Down" => NewestLatency(g) = None]_vars

\* worker w is the value of some key of the registry
Registered(w) == \E i \in 1..Len(workers) : workers[i][2] = w

\* a call in progress has taken w's stop event out of the registry and has
\* not set it yet
SetPending(w) ==
    \E t \in Threads :
       \/ tpc[t] \in {"rm_unlock", "rm_set"} /\ frame[t].stop = w
       \/ /\ tpc[t] \in {"sa_unlock", "sa_set"}
          /\ \E k \in (frame[t].i + 1)..Len(frame[t].stops) : frame[t].stops[k] = w

\* the started workers
Started == { w \in WorkerIds : wpc[w] # "none" }

\* C26 (safety): add_host creates and starts a worker only for a host that is
\* not a key of the registry and registers that worker under the host, so a
\* host has at most one registered worker however the calls interleave, and
\* an add_host that finds the host registered creates nothing.
C26_OneWorkerPerAdd ==
    [][/\ created' # created =>
            /\ created' = created + 1
            /\ ~DictHas(workers, w_host'[created'])
            /\ DictGet(workers', w_host'[created']) = created'
            /\ wpc'[created'] = "check"
       /\ \A t \in Threads :
            (tpc[t] = "idle" /\ tpc'[t] = "add_unlock" /\ DictHas(workers, frame'[t].host))
              => (created' = created /\ workers' = workers /\ stops' = stops)
       /\ \A i, j \in 1..Len(workers') : workers'[i][1] = workers'[j][1] => i = j
       /\ \A i, j \in 1..Len(workers') : workers'[i][2] = workers'[j][2] => i = j]_vars

\* C26 (safety): every started worker is registered, or its stop event is
\* set, or the call that took it out of the registry is about to set it.
C26_RegisteredOrSignalled ==
    \A w \in Started : Registered(w) \/ stop_event[w] \/ SetPending(w)

\* no remove_host and no stop_all has been called
OnlyAdds ==
    /\ removed = NoHost
    /\ ~stopped
    /\ \A w \in WorkerIds : joined[w] = ""
    /\ \A t \in Threads : tpc[t] \in {"idle", "add_unlock"}

\* C26 (safety): while only add_host has been called, every thread's add_host
\* of a host leaves exactly one worker created for it.
C26_ExactlyOnePerHost ==
    OnlyAdds =>
      \A t \in Threads :
         tpc[t] = "add_unlock"
           => Cardinality({ w \in Started : w_host[w] = frame[t].host }) = 1

\* C26: registry mutations are serialized by the lock: concurrent add_host
\* calls for an unregistered host create and start exactly one worker, and
\* concurrent add_host / remove_host / stop_all leave no started worker that
\* is neither registered nor signalled to stop.
C26_SerializedRegistry ==
    /\ C26_OneWorkerPerAdd
    /\ []C26_RegisteredOrSignalled
    /\ []C26_ExactlyOnePerHost

\* C26 witness: two add_host("a") calls and nothing else: the second one holds
\* the lock and one worker exists.
C26_Witness ==
    /\ OnlyAdds
    /\ calls = 2
    /\ \E t \in Threads : tpc[t] = "add_unlock" /\ frame[t].host = TheHost
    /\ created = 1
    /\ w_host[1] = TheHost
    /\ wpc[1] # "check"

\* C30: whenever the lock is free, _workers and _stops have the same keys,
\* the stop event stored under a key is the one of the worker stored under
\* it, and no registered worker's stop event is set.
C30_MapsAgree ==
    lock = "free" =>
      /\ DictKeys(workers) = DictKeys(stops)
      /\ \A i \in 1..Len(workers) :
            /\ DictGet(stops, workers[i][1]) = workers[i][2]
            /\ w_host[workers[i][2]] = workers[i][1]
            /\ ~stop_event[workers[i][2]]

\* C30 witness: the lock is free, one host is registered and one worker has
\* been taken out of the registry and signalled.
C30_Witness ==
    /\ lock = "free"
    /\ Len(workers) = 1
    /\ created = 2
    /\ \E w \in WorkerIds : stop_event[w] /\ ~Registered(w)

\* thread t returns from update_interval in this step
UpdateReturns(t) == tpc[t] = "ui_set" /\ tpc'[t] = "idle"

\* C27: when update_interval(target, s) returns and target is registered,
\* the worker registered for target has the interval max(0.2, s), also when
\* remove_host and add_host of the target run concurrently with the call.
C27_IntervalOfRegisteredWorker ==
    [][\A t \in Threads :
          (UpdateReturns(t) /\ DictHas(workers', TheHost))
            => interval_seconds'[DictGet(workers', TheHost)]
                 = Max(MIN_INTERVAL, frame[t].requested)]_vars

\* C27 (the case of the lost update): an update_interval that found the
\* target registered when it held the lock does not return while another
\* worker is registered for the target.
C27_NoStaleAssignment ==
    [][\A t \in Threads :
          (UpdateReturns(t) /\ frame[t].registered /\ DictHas(workers', TheHost))
            => DictGet(workers', TheHost) = frame[t].worker]_vars

\* C27 (the part that holds): update_interval assigns max(0.2, s) to the
\* worker it found under the lock, and to no other; without a concurrent call
\* that is the registered worker.
C27_AssignsToWorkerFound ==
    [][\A t \in Threads :
          UpdateReturns(t) =>
            /\ \A w \in WorkerIds :
                  interval_seconds'[w] =
                     IF w = frame[t].worker THEN Max(MIN_INTERVAL, frame[t].requested)
                     ELSE interval_seconds[w]
            /\ (\A u \in Threads \ {t} : tpc[u] = "idle" /\ frame[t].registered
                  /\ DictGet(workers, TheHost) = frame[t].worker)
                 => interval_seconds'[DictGet(workers', TheHost)]
                      = Max(MIN_INTERVAL, frame[t].requested)]_vars

\* worker w can still put an update on the queue: it is inside an iteration,
\* or it is between iterations and its stop event is not set
CanPublish(w) ==
    \/ wpc[w] \in {"inc", "probe", "publish"}
    \/ wpc[w] \in {"check", "sleep"} /\ ~stop_event[w]

\* no remove_host and no stop_all is in progress
NoRemovalInProgress ==
    \A t \in Threads : tpc[t] \notin {"rm_unlock", "rm_set", "rm_join",
                                       "sa_unlock", "sa_set", "sa_join"}

\* C29: between calls, at most one worker that can still publish exists per
\* target, so after remove_host(target) and add_host(target) have returned
\* only the new worker publishes for the target.
C29_OnePublisherPerTarget ==
    NoRemovalInProgress =>
      \A w1, w2 \in WorkerIds :
         (CanPublish(w1) /\ CanPublish(w2) /\ w_host[w1] = w_host[w2]) => w1 = w2

\* C29 (the consumer's view): the queue never holds, for one target, an
\* update of a newer worker in front of an update of an older one.
C29_NoInterleavedUpdates ==
    \A i, j \in 1..Len(update_queue) :
       (i < j /\ w_host[update_queue[i]] = w_host[update_queue[j]])
         => update_queue[i] <= update_queue[j]

\* a command that ran to completion with return code 0
Succeeds(o) == ~o.raised /\ o.rc = 0

\* the first command of outs that succeeds when it is run, 0 if none does
FirstSuccess(outs) ==
    IF \E i \in 1..Len(outs) : Succeeds(outs[i])
    THEN CHOOSE i \in 1..Len(outs) :
           Succeeds(outs[i]) /\ \A j \in 1..(i - 1) : ~Succeeds(outs[j])
    ELSE 0

\* worker w's _ping_once call ends in this step
ProbeEnds(w) == wpc[w] = "probe" /\ wpc'[w] # "probe"

\* C28: the probe runs its commands in order and stops at the first that
\* succeeds: a probe that returns a result reports success exactly when some
\* command succeeds; no command after the first success is run, all are run
\* when none succeeds; a failure result has an absent latency.
C28_StopsAtFirstSuccess ==
    [][\A w \in WorkerIds :
          (ProbeEnds(w) /\ wpc'[w] = "publish") =>
            LET outs == probed'[w]
                k == FirstSuccess(outs)
            IN /\ (stats'[w].last_status = "Up") <=> (k # 0)
               /\ CommandsRun(outs) = (IF k # 0 THEN k ELSE Len(outs))
               /\ stats'[w].last_status = "Down"
                    => stats'[w].last_latency_ms = None]_vars

\* C28 (the part that holds): the commands run are a prefix of the list; a
\* reported success is the success of the last command run, and no command
\* before it succeeded with an output that has a line; a command that raises
\* is followed by the next; when no command succeeds all are run and no
\* success is reported; a failure result has an absent latency.
C28_SuccessIsOfLastCommandRun ==
    [][\A w \in WorkerIds :
          ProbeEnds(w) =>
            LET outs == probed'[w]
                n == CommandsRun(outs)
                up == wpc'[w] = "publish" /\ stats'[w].last_status = "Up"
            IN /\ n \in 1..Len(outs)
               /\ up => (Succeeds(outs[n]) /\ n >= FirstSuccess(outs))
               /\ ~up => n = Len(outs)
               /\ \A i \in 1..Len(outs) : (outs[i].raised /\ i < Len(outs) /\ i <= n) => n > i
               /\ FirstSuccess(outs) = 0 => ~up
               /\ (wpc'[w] = "publish" /\ ~up)
                    => (stats'[w].last_status = "Down"
                        /\ stats'[w].last_latency_ms = None)]_vars

(* ------------------------------ C31 .. C32 ---------------------------- *)

\* thread t calls remove_host(h) in this step
CallsRemoveHost(t, h) ==
    tpc[t] = "idle" /\ tpc'[t] = "rm_unlock" /\ frame'[t].host = h

\* the registry is the one add_host(h) leaves when it starts a worker: the
\* stripped h is a key (add_host(h) and add_host(strip(h)) leave the same
\* registry)
AddedAs(h) == NormalizeHost(h) # <<>> /\ DictHas(workers, NormalizeHost(h))

\* C32: remove_host(t) after an add_host(t) that started a worker takes that
\* worker and its stop event out of the registry, which is then as it was
\* before the add_host, and stops the worker.
C32_AddRemoveRoundTrip ==
    [][\A t \in Threads, h \in HostArgs :
          (CallsRemoveHost(t, h) /\ AddedAs(h)) =>
            /\ workers' = DictPop(workers, NormalizeHost(h))
            /\ stops' = DictPop(stops, NormalizeHost(h))
            /\ frame'[t].stop = DictGet(stops, NormalizeHost(h))
            /\ frame'[t].worker = DictGet(workers, NormalizeHost(h))]_vars

\* C32 (the part that holds): the round trip for an argument that has no
\* leading or trailing whitespace, and add_host of an empty or whitespace-only
\* string, which creates no worker and leaves the registry as it is.
C32_RoundTripOfStrippedArgument ==
    [][\A t \in Threads :
          /\ \A h \in HostArgs :
                (CallsRemoveHost(t, h) /\ AddedAs(h) /\ NormalizeHost(h) = h) =>
                  /\ workers' = DictPop(workers, h)
                  /\ stops' = DictPop(stops, h)
                  /\ ~DictHas(workers', h)
                  /\ frame'[t].stop = DictGet(stops, h)
                  /\ frame'[t].worker = DictGet(workers, h)
          /\ (tpc[t] = "rm_set" /\ tpc'[t] = "rm_join" /\ frame[t].stop # NoRef)
                => stop_event'[frame[t].stop]
          /\ (tpc[t] = "idle" /\ tpc'[t] = "add_ret") =>
                /\ NormalizeHost(frame'[t].arg) = <<>>
                /\ UNCHANGED <<workers, stops, created, wpc>>
          /\ (tpc[t] = "idle" /\ tpc'[t] = "add_unlock")
                => NormalizeHost(frame'[t].arg) # <<>>]_vars

\* the positions of a thread inside a `with self._lock` block
InLockedBody == {"add_unlock", "rm_unlock", "ls_unlock", "snap_unlock", "ui_unlock",
                 "sa_unlock"}

\* the positions of a thread inside add_host, list_hosts, stats_snapshot or
\* update_interval
InShortCall == {"add_unlock", "ls_unlock", "snap_unlock", "ui_unlock", "ui_set"}

\* C31 (safety): the lock is held by a thread exactly while that thread is
\* inside a locked block, so never by a thread that sets stop events or joins
\* a worker and never by a worker; no step of a worker touches the lock.
C31_LockOnlyInBodies ==
    [][/\ lock' \in {"free"} \cup Threads
       /\ \A t \in Threads : (lock' = t) <=> (tpc'[t] \in InLockedBody)
       /\ \A t \in Threads : tpc'[t] \in {"rm_set", "rm_join", "sa_set", "sa_join"}
                                 => lock' # t
       /\ (\E w \in WorkerIds : wpc[w] # "none" /\ wpc'[w] # wpc[w]) => lock' = lock]_vars

\* C31 (liveness): a held lock is released, and a thread inside add_host,
\* list_hosts, stats_snapshot or update_interval returns, whatever the
\* workers and the joins of the other thread do.
C31_LockReleasedCallsReturn ==
    /\ \A t \in Threads : (lock = t) ~> (lock = "free")
    /\ \A t \in Threads : (tpc[t] \in InShortCall) ~> (tpc[t] \in {"idle", "ls_ret", "snap_ret"})

\* C31: the lock is never held during a probe or a join and is released on
\* every path; add_host, list_hosts, stats_snapshot and update_interval
\* complete while a worker is inside a probe or another thread waits in
\* remove_host or stop_all.
C31_NoLockAcrossProbeOrJoin == C31_LockOnlyInBodies /\ C31_LockReleasedCallsReturn

\* C31 witness: one thread waits in the join of remove_host or stop_all for a
\* worker that is inside its probe while the other thread holds the lock in
\* one of the short calls.
C31_Witness ==
    \E t, u \in Threads :
       /\ tpc[t] \in {"rm_join", "sa_join"}
       /\ \E w \in WorkerIds : wpc[w] = "probe" /\ stop_event[w]
       /\ tpc[u] \in {"add_unlock", "ls_unlock", "snap_unlock", "ui_unlock"}
       /\ lock = u

=============================================================================
